---- MODULE Spec2Model ----
(***************************************************************************)
(* mango-v4: the token_deposit and place_serum_order instructions and the  *)
(* 46-byte wire codec of the serum NewOrderInstructionV3 descriptor.       *)
(*                                                                         *)
(* Spec     - the ledger: accounts, banks, vaults and the two instructions *)
(* SpecWire - the codec: serialize / deserialize of order descriptors      *)
(***************************************************************************)
EXTENDS Integers, Sequences, FiniteSets, TLC

VARIABLES
    accounts,   \* MangoAccount records: is_bankrupt and the token position slots
    banks,      \* Bank records, by token index
    vault,      \* raw token balance of each bank's vault (spl token account)
    venue,      \* orders the external matching venue has accepted
    last,       \* outcome of the last instruction the host processed
    order,      \* codec: the descriptor handed to serialize (or NoOrder)
    wire,       \* codec: the byte buffer
    decoded     \* codec: what deserialize returned for `wire` (or NoResult)

vars == <<accounts, banks, vault, venue, last, order, wire, decoded>>
ledgerVars == <<accounts, banks, vault, venue, last>>
wireVars == <<order, wire, decoded>>

(***************************************************************************)
(* Fixed-width integers.  TLC integers are 32 bit, so a u64 is kept as     *)
(* four 16-bit limbs and a u32 as two, least significant limb first.       *)
(***************************************************************************)
ByteBase == 256

U64Zero == <<0, 0, 0, 0>>
U64Max == <<65535, 65535, 65535, 65535>>

\* u8 as u32
U8AsU32(b) == <<b, 0>>

\* uN::to_le_bytes: every limb gives its low byte, then its high byte
RECURSIVE to_le_bytes(_)
to_le_bytes(limbs) ==
    IF limbs = <<>> THEN <<>>
    ELSE <<Head(limbs) % ByteBase, Head(limbs) \div ByteBase>> \o to_le_bytes(Tail(limbs))

\* uN::from_le_bytes on an array of 2, 4 or 8 bytes
from_le_bytes(bytes) ==
    [i \in 1..(Len(bytes) \div 2) |-> bytes[2 * i - 1] + ByteBase * bytes[2 * i]]

\* Option<T>: None, or Some(x)
None == <<>>
Some(x) == <<x>>
Unwrap(o) == o[1]

\* u32 -> u8 by a truncating cast (`as u8`)
U32TryIntoU8_truncating(w) == Some(w[1] % ByteBase)

\* u32 -> u8 by try_into(): None unless the value fits eight bits
U32TryIntoU8(w) == IF w[2] = 0 /\ w[1] < ByteBase THEN Some(w[1]) ELSE None

\* NonZeroU64::new
NonZeroU64New(v) == IF v = U64Zero THEN None ELSE Some(v)

(***************************************************************************)
(* The enumerations of serum_dex, with their u8 discriminants.             *)
(***************************************************************************)
SideValues == {"Bid", "Ask"}
SelfTradeBehaviorValues == {"DecrementTake", "CancelProvide", "AbortTransaction"}
OrderTypeValues == {"Limit", "ImmediateOrCancel", "PostOnly"}

SideInto(s) == IF s = "Bid" THEN 0 ELSE 1
SelfTradeBehaviorInto(s) ==
    IF s = "DecrementTake" THEN 0 ELSE IF s = "CancelProvide" THEN 1 ELSE 2
OrderTypeInto(t) ==
    IF t = "Limit" THEN 0 ELSE IF t = "ImmediateOrCancel" THEN 1 ELSE 2

\* TryFromPrimitive::try_from_primitive on a u8
SideTryFromPrimitive(b) ==
    IF \E s \in SideValues : SideInto(s) = b
    THEN Some(CHOOSE s \in SideValues : SideInto(s) = b) ELSE None
SelfTradeBehaviorTryFromPrimitive(b) ==
    IF \E s \in SelfTradeBehaviorValues : SelfTradeBehaviorInto(s) = b
    THEN Some(CHOOSE s \in SelfTradeBehaviorValues : SelfTradeBehaviorInto(s) = b)
    ELSE None
OrderTypeTryFromPrimitive(b) ==
    IF \E t \in OrderTypeValues : OrderTypeInto(t) = b
    THEN Some(CHOOSE t \in OrderTypeValues : OrderTypeInto(t) = b) ELSE None

(***************************************************************************)
(* The codec.                                                              *)
(***************************************************************************)
WireLen == 46

\* array_refs![data, 4, 8, 8, 8, 4, 4, 8, 2]
Field(data, from, n) == SubSeq(data, from, from + n - 1)

\* u32::from_le_bytes(arr).try_into().ok()? followed by try_from_primitive(..).ok()?
SideOf(arr) ==
    LET p == U32TryIntoU8(from_le_bytes(arr))
    IN IF p = None THEN None ELSE SideTryFromPrimitive(Unwrap(p))
SelfTradeBehaviorOf(arr) ==
    LET p == U32TryIntoU8(from_le_bytes(arr))
    IN IF p = None THEN None ELSE SelfTradeBehaviorTryFromPrimitive(Unwrap(p))
OrderTypeOf(arr) ==
    LET p == U32TryIntoU8(from_le_bytes(arr))
    IN IF p = None THEN None ELSE OrderTypeTryFromPrimitive(Unwrap(p))

\* an unpack without the NonZeroU64 checks
unpack_dex_new_order_v3_accepting_zero(data) ==
    LET side == SideOf(Field(data, 1, 4))
        self_trade_behavior == SelfTradeBehaviorOf(Field(data, 29, 4))
        order_type == OrderTypeOf(Field(data, 33, 4))
    IN IF side = None \/ self_trade_behavior = None \/ order_type = None THEN None
       ELSE Some([side |-> Unwrap(side),
                  limit_price |-> from_le_bytes(Field(data, 5, 8)),
                  max_coin_qty |-> from_le_bytes(Field(data, 13, 8)),
                  max_native_pc_qty_including_fees |-> from_le_bytes(Field(data, 21, 8)),
                  self_trade_behavior |-> Unwrap(self_trade_behavior),
                  order_type |-> Unwrap(order_type),
                  client_order_id |-> from_le_bytes(Field(data, 37, 8)),
                  limit |-> from_le_bytes(Field(data, 45, 2))[1]])

\* The `?` chain of unpack_dex_new_order_v3: the first None ends the function.
unpack_dex_new_order_v3(data) ==
    LET side == SideOf(Field(data, 1, 4))
        limit_price == NonZeroU64New(from_le_bytes(Field(data, 5, 8)))
        max_coin_qty == NonZeroU64New(from_le_bytes(Field(data, 13, 8)))
        max_native_pc_qty_including_fees ==
            NonZeroU64New(from_le_bytes(Field(data, 21, 8)))
        self_trade_behavior == SelfTradeBehaviorOf(Field(data, 29, 4))
        order_type == OrderTypeOf(Field(data, 33, 4))
        client_order_id == from_le_bytes(Field(data, 37, 8))
        limit == from_le_bytes(Field(data, 45, 2))[1]
    IN IF side = None THEN None
       ELSE IF limit_price = None THEN None
       ELSE IF max_coin_qty = None THEN None
       ELSE IF max_native_pc_qty_including_fees = None THEN None
       ELSE IF self_trade_behavior = None THEN None
       ELSE IF order_type = None THEN None
       ELSE Some([side |-> Unwrap(side),
                  limit_price |-> Unwrap(limit_price),
                  max_coin_qty |-> Unwrap(max_coin_qty),
                  max_native_pc_qty_including_fees |->
                      Unwrap(max_native_pc_qty_including_fees),
                  self_trade_behavior |-> Unwrap(self_trade_behavior),
                  order_type |-> Unwrap(order_type),
                  client_order_id |-> client_order_id,
                  limit |-> limit])

\* BorshDeserialize::deserialize.  buf[0..46] is a slice index: on a buffer
\* shorter than 46 bytes it panics before try_into() is reached, and on a longer
\* one it always yields 46 bytes, so the UnexpectedEof arm of map_err is dead.
\* `rest` is what *buf points at afterwards.
deserialize(buf) ==
    IF Len(buf) < WireLen
    THEN [status |-> "Panic", value |-> None, rest |-> buf]
    ELSE LET data == SubSeq(buf, 1, WireLen)
             rest == SubSeq(buf, WireLen + 1, Len(buf))
             o == unpack_dex_new_order_v3(data)
         IN IF o = None
            THEN [status |-> "InvalidInput", value |-> None, rest |-> rest]
            ELSE [status |-> "Ok", value |-> o, rest |-> rest]

\* a serialize that writes each enumeration as its single u8
serialize_one_byte_enums(d) ==
    <<SideInto(d.side)>>
    \o to_le_bytes(d.limit_price)
    \o to_le_bytes(d.max_coin_qty)
    \o to_le_bytes(d.max_native_pc_qty_including_fees)
    \o <<SelfTradeBehaviorInto(d.self_trade_behavior)>>
    \o <<OrderTypeInto(d.order_type)>>
    \o to_le_bytes(d.client_order_id)
    \o to_le_bytes(<<d.limit>>)

\* a serialize that writes the two quantities in the other order
serialize_quantities_swapped(d) ==
    to_le_bytes(U8AsU32(SideInto(d.side)))
    \o to_le_bytes(d.limit_price)
    \o to_le_bytes(d.max_native_pc_qty_including_fees)
    \o to_le_bytes(d.max_coin_qty)
    \o to_le_bytes(U8AsU32(SelfTradeBehaviorInto(d.self_trade_behavior)))
    \o to_le_bytes(U8AsU32(OrderTypeInto(d.order_type)))
    \o to_le_bytes(d.client_order_id)
    \o to_le_bytes(<<d.limit>>)

\* BorshSerialize::serialize into an empty Vec writer
serialize(d) ==
    to_le_bytes(U8AsU32(SideInto(d.side)))
    \o to_le_bytes(d.limit_price)
    \o to_le_bytes(d.max_coin_qty)
    \o to_le_bytes(d.max_native_pc_qty_including_fees)
    \o to_le_bytes(U8AsU32(SelfTradeBehaviorInto(d.self_trade_behavior)))
    \o to_le_bytes(U8AsU32(OrderTypeInto(d.order_type)))
    \o to_le_bytes(d.client_order_id)
    \o to_le_bytes(<<d.limit>>)

(***************************************************************************)
(* SpecWire: descriptors are serialized, instruction data arrives, and the *)
(* buffer is deserialized.                                                 *)
(***************************************************************************)
\* nothing serialized yet / nothing deserialized yet
NoOrder == None
NoResult == [status |-> "NoResult", value |-> None, rest |-> <<>>]

\* bytes appended after a descriptor in the instruction data
MaxTrailing == 1

PriceValues == {<<1, 0, 0, 0>>, U64Max}
CoinQtyValues == {<<1, 0, 0, 0>>, <<0, 0, 0, 1>>}
PcQtyValues == {<<1, 0, 0, 0>>, <<258, 3, 0, 0>>}
ClientIdValues == {U64Zero, <<513, 0, 7, 65535>>}
LimitValues == {0, 65535}

Orders ==
    [side : SideValues,
     limit_price : PriceValues,
     max_coin_qty : CoinQtyValues,
     max_native_pc_qty_including_fees : PcQtyValues,
     self_trade_behavior : SelfTradeBehaviorValues,
     order_type : OrderTypeValues,
     client_order_id : ClientIdValues,
     limit : LimitValues]

PokeBytes == {0, 3, 255}

Trailing(n) == [i \in 1..n |-> 9]

WireInit ==
    /\ order = NoOrder
    /\ wire = <<>>
    /\ decoded = NoResult

\* a client serializes a descriptor into an empty buffer
SerializeOrder ==
    /\ order = NoOrder /\ wire = <<>> /\ decoded = NoResult
    /\ \E d \in Orders :
        /\ order' = Some(d)
        /\ wire' = serialize(d)
    /\ UNCHANGED decoded
    /\ UNCHANGED ledgerVars

\* the instruction data that arrives is a descriptor's bytes cut short or
\* followed by more bytes
ReceiveTruncated ==
    /\ order /= NoOrder /\ decoded = NoResult
    /\ \E n \in 0..(Len(wire) + MaxTrailing) :
        wire' = SubSeq(wire \o Trailing(MaxTrailing), 1, n)
    /\ order' = NoOrder
    /\ UNCHANGED decoded
    /\ UNCHANGED ledgerVars

\* the instruction data that arrives is 46 bytes with one byte overwritten
ReceivePoked ==
    /\ order /= NoOrder /\ decoded = NoResult
    /\ \E pos \in 1..Len(wire), b \in PokeBytes :
        wire' = [wire EXCEPT ![pos] = b]
    /\ order' = NoOrder
    /\ UNCHANGED decoded
    /\ UNCHANGED ledgerVars

DeserializeWire ==
    /\ decoded = NoResult
    /\ decoded' = deserialize(wire)
    /\ UNCHANGED <<order, wire>>
    /\ UNCHANGED ledgerVars

WireNext ==
    \/ SerializeOrder
    \/ ReceiveTruncated
    \/ ReceivePoked
    \/ DeserializeWire

\* C7: a descriptor that was serialized and then deserialized comes back Ok
\* and equal to the original in all eight fields, with nothing left to read.
RoundTrip ==
    (order /= NoOrder /\ decoded /= NoResult) =>
        /\ decoded.status = "Ok"
        /\ decoded.value = order
        /\ decoded.rest = <<>>

RoundTripWitness ==
    /\ order /= NoOrder
    /\ decoded /= NoResult
    /\ decoded.status = "Ok"
    /\ Unwrap(order).limit_price = U64Max
    /\ Unwrap(order).side = "Ask"
    /\ Unwrap(order).limit = 65535

\* C8: deserializing a buffer of fewer than 46 bytes returns the error value
\* UnexpectedEof and no descriptor.
ShortBufferIsUnexpectedEof ==
    (decoded /= NoResult /\ Len(wire) < WireLen) =>
        /\ decoded.status = "UnexpectedEof"
        /\ decoded.value = None

\* C9: a 46-byte payload whose limit price, max base quantity or max quote
\* quantity is zero is rejected with InvalidInput and yields no descriptor.
ZeroField(buf) ==
    \/ from_le_bytes(Field(buf, 5, 8)) = U64Zero
    \/ from_le_bytes(Field(buf, 13, 8)) = U64Zero
    \/ from_le_bytes(Field(buf, 21, 8)) = U64Zero

ZeroFieldRejected ==
    (decoded /= NoResult /\ Len(wire) = WireLen /\ ZeroField(wire)) =>
        /\ decoded.status = "InvalidInput"
        /\ decoded.value = None

ZeroFieldRejectedWitness ==
    /\ decoded /= NoResult
    /\ Len(wire) = WireLen
    /\ from_le_bytes(Field(wire, 21, 8)) = U64Zero
    /\ from_le_bytes(Field(wire, 5, 8)) /= U64Zero
    /\ from_le_bytes(Field(wire, 13, 8)) /= U64Zero
    /\ SideOf(Field(wire, 1, 4)) = Some("Ask")
    /\ decoded.status = "InvalidInput"

IsByte(b) == b \in 0..(ByteBase - 1)

\* C14: serialize writes exactly 46 bytes: side in 4, limit price in 8, max base
\* quantity in 8, max quote quantity including fees in 8, self-trade behavior
\* in 4, order type in 4, client order id in 8 and the result limit in 2, each
\* little-endian, an enumerated field being its one-byte value followed by three
\* zero bytes.
SerializedLayout ==
    order /= NoOrder =>
        LET d == Unwrap(order)
            \* the 16-bit limbs of an integer, least significant byte first
            LittleEndian(limbs, from) ==
                \A j \in 1..Len(limbs) :
                    /\ IsByte(wire[from + 2 * (j - 1)])
                    /\ IsByte(wire[from + 2 * (j - 1) + 1])
                    /\ wire[from + 2 * (j - 1)]
                         + ByteBase * wire[from + 2 * (j - 1) + 1] = limbs[j]
            ZeroExtended(b, from) ==
                /\ wire[from] = b
                /\ \A k \in 1..3 : wire[from + k] = 0
        IN /\ Len(wire) = 4 + 8 + 8 + 8 + 4 + 4 + 8 + 2
           /\ ZeroExtended(SideInto(d.side), 1)
           /\ LittleEndian(d.limit_price, 5)
           /\ LittleEndian(d.max_coin_qty, 13)
           /\ LittleEndian(d.max_native_pc_qty_including_fees, 21)
           /\ ZeroExtended(SelfTradeBehaviorInto(d.self_trade_behavior), 29)
           /\ ZeroExtended(OrderTypeInto(d.order_type), 33)
           /\ LittleEndian(d.client_order_id, 37)
           /\ LittleEndian(<<d.limit>>, 45)

\* an Ask / AbortTransaction / PostOnly descriptor whose quantities differ and
\* whose multi-byte fields have distinct low and high bytes was serialized
SerializedLayoutWitness ==
    /\ order /= NoOrder
    /\ decoded = NoResult
    /\ Unwrap(order).side = "Ask"
    /\ Unwrap(order).self_trade_behavior = "AbortTransaction"
    /\ Unwrap(order).order_type = "PostOnly"
    /\ Unwrap(order).max_coin_qty = <<0, 0, 0, 1>>
    /\ Unwrap(order).max_native_pc_qty_including_fees = <<258, 3, 0, 0>>
    /\ Unwrap(order).client_order_id = <<513, 0, 7, 65535>>
    /\ wire[21] = 2 /\ wire[22] = 1 /\ wire[23] = 3
    /\ wire[19] = 1 /\ wire[20] = 0
    /\ wire[37] = 1 /\ wire[38] = 2

\* a 4-byte field that is the zero-extended discriminant of a member
EnumInDomain(buf, from, values) ==
    /\ buf[from] < Cardinality(values)
    /\ \A k \in 1..3 : buf[from + k] = 0
EnumsInDomain(buf) ==
    /\ EnumInDomain(buf, 1, SideValues)
    /\ EnumInDomain(buf, 29, SelfTradeBehaviorValues)
    /\ EnumInDomain(buf, 33, OrderTypeValues)

\* C19: a 46-byte payload whose side, self-trade behavior or order type field
\* is not the zero-extended byte of a member of the enumeration, a non-zero
\* byte among the upper three included, is rejected with InvalidInput and
\* yields no descriptor; the payloads accepted are exactly those serialize
\* produces.
EnumDomainEnforced ==
    (decoded /= NoResult /\ Len(wire) = WireLen) =>
        /\ ~EnumsInDomain(wire) =>
              (decoded.status = "InvalidInput" /\ decoded.value = None)
        /\ decoded.status = "Ok" => serialize(Unwrap(decoded.value)) = wire
        /\ (EnumsInDomain(wire) /\ ~ZeroField(wire)) => decoded.status = "Ok"

\* a payload whose side field has a valid low byte and 255 in its highest
\* byte, everything else being acceptable, was rejected
EnumDomainEnforcedWitness ==
    /\ decoded /= NoResult
    /\ Len(wire) = WireLen
    /\ wire[1] = 1 /\ wire[4] = 255
    /\ EnumInDomain(wire, 29, SelfTradeBehaviorValues)
    /\ EnumInDomain(wire, 33, OrderTypeValues)
    /\ ~ZeroField(wire)
    /\ decoded.status = "InvalidInput"

(***************************************************************************)
(* The ledger.                                                             *)
(*                                                                         *)
(* I80F48 values are kept as integers counting units of 1/2^FracBits; the  *)
(* 48 fractional bits and the 2^79 range of the type are scaled down to    *)
(* FracBits and MaxNative so that the state space is finite.               *)
(***************************************************************************)
FracBits == 1
Scale == 2 ^ FracBits

\* position slots of an account, and the largest native amount the scaled-down
\* I80F48 represents
MaxSlots == 2
MaxNative == 2

AccountIds == {"alice", "bob"}
TokenIndexes == {0, 1, 2}
Slots == 1..MaxSlots

\* I80F48::from(u64), checked multiplication and division
I80F48From(n) == n * Scale
FixMul(a, b) == (a * b) \div Scale
FixDiv(a, b) == (a * Scale) \div b
InRange(v) == v <= I80F48From(MaxNative) /\ v >= -I80F48From(MaxNative)

FreeSlot == [token_index |-> 0, indexed_value |-> 0, in_use |-> FALSE]

\* TokenPosition::native: the scaled balance times the index of its sign
Native(bank, position) ==
    IF position.indexed_value > 0
    THEN FixMul(position.indexed_value, bank.deposit_index)
    ELSE FixMul(position.indexed_value, bank.borrow_index)

(***************************************************************************)
(* Position Ledger (state::MangoAccount tokens)                            *)
(***************************************************************************)
ActiveSlotsOf(tokens, token_index) ==
    {i \in Slots : tokens[i].in_use /\ tokens[i].token_index = token_index}
InactiveSlots(tokens) == {i \in Slots : ~tokens[i].in_use}
MinOf(S) == CHOOSE i \in S : \A j \in S : i <= j

get_mut_or_create(tokens, token_index) ==
    IF ActiveSlotsOf(tokens, token_index) /= {}
    THEN [err |-> None, tokens |-> tokens,
          index |-> MinOf(ActiveSlotsOf(tokens, token_index)), claimed |-> FALSE]
    ELSE IF InactiveSlots(tokens) /= {}
    THEN LET i == MinOf(InactiveSlots(tokens))
         IN [err |-> None,
             tokens |-> [tokens EXCEPT ![i] = [token_index |-> token_index,
                                               indexed_value |-> 0,
                                               in_use |-> TRUE]],
             index |-> i, claimed |-> TRUE]
    ELSE [err |-> Some("PositionLimitExceeded"), tokens |-> tokens, index |-> 0,
          claimed |-> FALSE]

deactivate(tokens, index) == [tokens EXCEPT ![index].in_use = FALSE]

(***************************************************************************)
(* Bank Accrual State (state::Bank)                                        *)
(***************************************************************************)
\* Bank::deposit(position, native_amount) -> Result<bool>
BankDeposit(bank, position, native_amount) ==
    LET native_position == Native(bank, position)
        new_native == native_position + native_amount
        repaid == IF native_position >= 0 THEN 0
                  ELSE IF new_native < 0 THEN native_amount ELSE -native_position
        credited == native_amount - repaid
        new_indexed == IF new_native < 0 THEN FixDiv(new_native, bank.borrow_index)
                       ELSE FixDiv(new_native, bank.deposit_index)
        new_bank == [bank EXCEPT !.total_deposits = @ + credited,
                                 !.total_borrows = @ - repaid]
        failed(e) == [err |-> Some(e), bank |-> bank, position |-> position,
                      active |-> position.in_use]
    IN IF native_amount = 0 THEN failed("InvalidInput")
       ELSE IF ~InRange(new_native) \/ ~InRange(new_bank.total_deposits)
       THEN failed("ArithmeticOverflow")
       ELSE [err |-> None,
             bank |-> new_bank,
             position |-> [position EXCEPT !.indexed_value = new_indexed],
             active |-> new_indexed /= 0]

(***************************************************************************)
(* Health Engine (state::health)                                           *)
(***************************************************************************)
HealthTypes == {"Init", "Maint"}

AssetWeight(bank, health_type) ==
    IF health_type = "Init" THEN bank.init_asset_weight ELSE bank.maint_asset_weight
LiabWeight(bank, health_type) ==
    IF health_type = "Init" THEN bank.init_liab_weight ELSE bank.maint_liab_weight

\* contribution of one position: native * price * weight
Contribution(bank, position, price, health_type) ==
    LET native == Native(bank, position)
        weight == IF native > 0 THEN AssetWeight(bank, health_type)
                  ELSE LiabWeight(bank, health_type)
    IN FixMul(FixMul(native, I80F48From(price)), weight)

RECURSIVE SumOver(_, _)
SumOver(f, S) ==
    IF S = {} THEN 0
    ELSE LET x == CHOOSE y \in S : TRUE IN f[x] + SumOver(f, S \ {x})

\* compute_health_from_fixed_accounts(account, health_type, remaining_accounts):
\* `remaining` maps the token indexes whose bank/oracle pair was passed to a price
compute_health_from_fixed_accounts(account, health_type, bankOf, remaining) ==
    LET active == {i \in Slots : account.tokens[i].in_use}
        covered(i) == account.tokens[i].token_index \in DOMAIN remaining
        c == [i \in active |->
                IF covered(i)
                THEN Contribution(bankOf[account.tokens[i].token_index],
                                  account.tokens[i],
                                  remaining[account.tokens[i].token_index],
                                  health_type)
                ELSE 0]
    IN IF \E i \in active : ~covered(i)
       THEN [err |-> Some("MissingBank"), health |-> 0]
       ELSE [err |-> None, health |-> SumOver(c, active)]

\* compute_health(account, remaining_accounts), as place_serum_order calls it
compute_health(account, bankOf, remaining) ==
    compute_health_from_fixed_accounts(account, "Init", bankOf, remaining)

(***************************************************************************)
(* token_deposit.  `st` is the instruction's view of the accounts it has   *)
(* loaded, mutated in place as the handler runs; st.result is "Running"    *)
(* until the handler returns.  `ix` holds the instruction's inputs.        *)
(***************************************************************************)
Running == "Running"

Start(op, account, bank, vaultBalance) ==
    [op |-> op, result |-> Running, trace |-> <<>>,
     account |-> account, bank |-> bank, vault |-> vaultBalance,
     health |-> None, position_index |-> 0, position_is_active |-> TRUE,
     submitted |-> None]

Fail(st, e) == [st EXCEPT !.result = e]
Did(st, event) == [st EXCEPT !.trace = Append(@, event)]

\* require!(amount > 0, MangoError::SomeError)
RequireAmount(st, ix) ==
    IF st.result /= Running THEN st
    ELSE IF ix.amount > 0 THEN st ELSE Fail(st, "SomeError")

\* a handler without the bankruptcy check
RequireNotBankrupt_unchecked(st) == st

\* require!(account.is_bankrupt == 0, MangoError::IsBankrupt)
RequireNotBankrupt(st) ==
    IF st.result /= Running THEN st
    ELSE IF st.account.is_bankrupt = 0 THEN st ELSE Fail(st, "IsBankrupt")

\* a lookup that takes the first slot over when the account is full
GetPosition_overwriting_first(st, ix) ==
    IF st.result /= Running THEN st
    ELSE LET g == get_mut_or_create(st.account.tokens, st.bank.token_index)
         IN IF g.err /= None
            THEN [Did(st, "claim_slot")
                    EXCEPT !.account.tokens[1] = [token_index |-> st.bank.token_index,
                                                  indexed_value |-> 0,
                                                  in_use |-> TRUE],
                           !.position_index = 1]
            ELSE [Did(st, IF g.claimed THEN "claim_slot" ELSE "get_mut_or_create")
                    EXCEPT !.account.tokens = g.tokens,
                           !.position_index = g.index]

\* a lookup by a fixed token index instead of the bank's
GetPosition_wrong_token(st, ix) ==
    IF st.result /= Running THEN st
    ELSE LET g == get_mut_or_create(st.account.tokens, 0)
         IN IF g.err /= None THEN Fail(Did(st, "get_mut_or_create"), Unwrap(g.err))
            ELSE [Did(st, IF g.claimed THEN "claim_slot" ELSE "get_mut_or_create")
                    EXCEPT !.account.tokens = g.tokens,
                           !.position_index = g.index]

\* let token_index = bank.token_index;
\* account.tokens.get_mut_or_create(token_index)?
GetPosition(st, ix) ==
    IF st.result /= Running THEN st
    ELSE LET g == get_mut_or_create(st.account.tokens, st.bank.token_index)
         IN IF g.err /= None THEN Fail(Did(st, "get_mut_or_create"), Unwrap(g.err))
            ELSE [Did(st, IF g.claimed THEN "claim_slot" ELSE "get_mut_or_create")
                    EXCEPT !.account.tokens = g.tokens,
                           !.position_index = g.index]

\* bank.deposit(position, I80F48::from(amount))?
UpdateBank(st, ix) ==
    IF st.result /= Running THEN st
    ELSE LET d == BankDeposit(st.bank, st.account.tokens[st.position_index],
                              I80F48From(ix.amount))
         IN IF d.err /= None THEN Fail(Did(st, "bank.deposit"), Unwrap(d.err))
            ELSE [Did(st, "bank.deposit")
                    EXCEPT !.bank = d.bank,
                           !.account.tokens[st.position_index] = d.position,
                           !.position_is_active = d.active]

\* a transfer whose Result is dropped instead of returned with `?`
Transfer_ignoring_failure(st, ix) ==
    IF st.result /= Running THEN st
    ELSE IF ~ix.transfer_ok THEN Did(st, "token::transfer")
    ELSE [Did(st, "token::transfer") EXCEPT !.vault = @ + ix.amount]

\* a transfer_ctx whose `from` and `to` are swapped
Transfer_out_of_vault(st, ix) ==
    IF st.result /= Running THEN st
    ELSE IF ~ix.transfer_ok THEN Fail(Did(st, "token::transfer"), "TransferError")
    ELSE [Did(st, "token::transfer") EXCEPT !.vault = @ - ix.amount]

\* token::transfer(ctx.accounts.transfer_ctx(), amount)?
Transfer(st, ix) ==
    IF st.result /= Running THEN st
    ELSE IF ~ix.transfer_ok THEN Fail(Did(st, "token::transfer"), "TransferError")
    ELSE [Did(st, "token::transfer") EXCEPT !.vault = @ + ix.amount]

\* a health evaluation that leaves out the touched slot once its balance is zero
DepositHealth_skipping_touched(st, ix, bankOf) ==
    IF st.result /= Running THEN st
    ELSE LET seen == IF st.position_is_active THEN st.account
                     ELSE [st.account EXCEPT
                             !.tokens = deactivate(@, st.position_index)]
             h == compute_health_from_fixed_accounts(
                      seen, "Init",
                      [bankOf EXCEPT ![st.bank.token_index] = st.bank],
                      ix.remaining)
         IN IF h.err /= None THEN Fail(Did(st, "compute_health"), Unwrap(h.err))
            ELSE [Did(st, "compute_health") EXCEPT !.health = Some(h.health)]

\* compute_health_from_fixed_accounts(&account, HealthType::Init, remaining)?
\* the value is logged and nothing else is done with it
DepositHealth(st, ix, bankOf) ==
    IF st.result /= Running THEN st
    ELSE LET h == compute_health_from_fixed_accounts(
                      st.account, "Init",
                      [bankOf EXCEPT ![st.bank.token_index] = st.bank],
                      ix.remaining)
         IN IF h.err /= None THEN Fail(Did(st, "compute_health"), Unwrap(h.err))
            ELSE [Did(st, "compute_health") EXCEPT !.health = Some(h.health)]

\* a handler that never deactivates
DeactivateIfInactive_never(st) == st

\* a deactivation under the negated condition
DeactivateIfInactive_flipped(st) ==
    IF st.result /= Running THEN st
    ELSE IF st.position_is_active
    THEN [Did(st, "deactivate")
            EXCEPT !.account.tokens = deactivate(@, st.position_index)]
    ELSE st

\* if !position_is_active { account.tokens.deactivate(position_index); }
DeactivateIfInactive(st) ==
    IF st.result /= Running THEN st
    ELSE IF ~st.position_is_active
    THEN [Did(st, "deactivate")
            EXCEPT !.account.tokens = deactivate(@, st.position_index)]
    ELSE st

\* Ok(())
ReturnOk(st) ==
    IF st.result /= Running THEN st ELSE [Did(st, "Ok") EXCEPT !.result = "Ok"]

\* a handler that deactivates before it evaluates health
token_deposit_health_last(st0, ix, bankOf) ==
    ReturnOk(
    DepositHealth(
    DeactivateIfInactive(
    Transfer(
    UpdateBank(
    GetPosition(
    RequireNotBankrupt(
    RequireAmount(st0, ix)), ix), ix), ix)), ix, bankOf))

\* token_deposit, in the order of its statements
token_deposit(st0, ix, bankOf) ==
    ReturnOk(
    DeactivateIfInactive(
    DepositHealth(
    Transfer(
    UpdateBank(
    GetPosition(
    RequireNotBankrupt(
    RequireAmount(st0, ix)), ix), ix), ix), ix, bankOf)))

(***************************************************************************)
(* place_serum_order                                                       *)
(***************************************************************************)
\* a match whose arms are exchanged
OrderPayer_exchanged(o) == IF o.side = "Ask" THEN "quote_vault" ELSE "base_vault"

\* match order.side { Ask => base_vault, Bid => quote_vault }
OrderPayer(o) == IF o.side = "Ask" THEN "base_vault" ELSE "quote_vault"

\* dex::new_order_v3(context.with_signer(&[seeds]), order.side, ...)?
NewOrderV3(st, ix) ==
    IF st.result /= Running THEN st
    ELSE IF ~ix.venue_ok THEN Fail(Did(st, "dex::new_order_v3"), "DexError")
    ELSE [Did(st, "dex::new_order_v3")
            EXCEPT !.submitted =
                Some([payer |-> OrderPayer(ix.order),
                      order |->
                        [side |-> ix.order.side,
                         limit_price |-> ix.order.limit_price,
                         max_coin_qty |-> ix.order.max_coin_qty,
                         max_native_pc_qty_including_fees |->
                             ix.order.max_native_pc_qty_including_fees,
                         self_trade_behavior |-> ix.order.self_trade_behavior,
                         order_type |-> ix.order.order_type,
                         client_order_id |-> ix.order.client_order_id,
                         limit |-> ix.order.limit]])]

\* let health = compute_health(&account, &ctx.remaining_accounts)?
OrderHealth(st, ix, bankOf) ==
    IF st.result /= Running THEN st
    ELSE LET h == compute_health(st.account, bankOf, ix.remaining)
         IN IF h.err /= None THEN Fail(Did(st, "compute_health"), Unwrap(h.err))
            ELSE [Did(st, "compute_health") EXCEPT !.health = Some(h.health)]

\* a handler that logs the health and does not require anything of it
RequireHealth_unchecked(st) == st

\* require!(health >= 0, MangoError::SomeError)
RequireHealth(st) ==
    IF st.result /= Running THEN st
    ELSE IF Unwrap(st.health) >= 0 THEN st ELSE Fail(st, "SomeError")

\* place_serum_order, in the order of its statements
place_serum_order(st0, ix, bankOf) ==
    ReturnOk(RequireHealth(OrderHealth(NewOrderV3(st0, ix), ix, bankOf)))

(***************************************************************************)
(* The host.  An instruction runs alone on the accounts it declares; what  *)
(* it wrote is kept when it returns Ok and discarded when it returns Err.  *)
(***************************************************************************)
\* a host that keeps the writes of a failed instruction
Committed_even_on_error(st, before, after) == after

\* the account data after the instruction returned
Committed(st, before, after) == IF st.result = "Ok" THEN after ELSE before

\* what the last instruction did: everything of `st` but the account images;
\* `loaded` is the account as the instruction loaded it
Outcome(st, ix, loaded) ==
    [op |-> st.op, acct |-> ix.acct, token |-> st.bank.token_index,
     amount |-> ix.amount,
     was_bankrupt |-> st.account.is_bankrupt /= 0,
     result |-> st.result, trace |-> st.trace, health |-> st.health,
     position_index |-> st.position_index,
     position_is_active |-> st.position_is_active,
     submitted |-> st.submitted,
     order |-> IF "order" \in DOMAIN ix THEN Some(ix.order) ELSE NoOrder,
     covered |-> DOMAIN ix.remaining,
     cpi_ok |-> IF "transfer_ok" \in DOMAIN ix THEN ix.transfer_ok ELSE ix.venue_ok,
     slot_before |-> IF st.position_index = 0 THEN FreeSlot
                     ELSE loaded.tokens[st.position_index]]

NoOutcome ==
    [op |-> "none", acct |-> "alice", token |-> 0, amount |-> 0,
     was_bankrupt |-> FALSE,
     result |-> "none", trace |-> <<>>, health |-> None,
     position_index |-> 0, position_is_active |-> TRUE, submitted |-> None,
     order |-> NoOrder, covered |-> {}, cpi_ok |-> TRUE, slot_before |-> FreeSlot]

\* remaining_accounts: the bank/oracle pairs the caller passes, as a map from
\* token index to the oracle's price
CalmPrices == [t \in TokenIndexes |-> IF t = 0 THEN 2 ELSE 1]
StressPrices == [t \in TokenIndexes |-> IF t = 0 THEN 2 ELSE 3]
Restrict(f, S) == [x \in S |-> f[x]]
RemainingAccounts ==
    {CalmPrices, StressPrices,
     Restrict(CalmPrices, TokenIndexes \ {0}), Restrict(CalmPrices, TokenIndexes \ {1})}

\* raw amounts an instruction carries
AmountValues == {0, 1, 2}

\* the token_deposit instruction, as one transaction
TokenDeposit ==
    /\ last = NoOutcome
    /\ \E a \in AccountIds, t \in TokenIndexes, amt \in AmountValues, ok \in BOOLEAN :
      \E rem \in IF ok THEN RemainingAccounts ELSE {CalmPrices} :
        LET ix == [acct |-> a, amount |-> amt, transfer_ok |-> ok, remaining |-> rem]
        IN \E st \in {token_deposit(Start("token_deposit", accounts[a], banks[t],
                                           vault[t]), ix, banks)} :
           /\ accounts' = Committed(st, accounts, [accounts EXCEPT ![a] = st.account])
           /\ banks' = Committed(st, banks, [banks EXCEPT ![t] = st.bank])
           /\ vault' = Committed(st, vault, [vault EXCEPT ![t] = st.vault])
           /\ last' = Outcome(st, ix, accounts[a])
           /\ UNCHANGED venue
           /\ UNCHANGED wireVars

\* the descriptors the instruction carries: a Bid and an Ask that differ in
\* every field
LedgerOrders ==
    {[side |-> "Bid",
      limit_price |-> <<1, 0, 0, 0>>,
      max_coin_qty |-> <<2, 0, 0, 0>>,
      max_native_pc_qty_including_fees |-> <<258, 3, 0, 0>>,
      self_trade_behavior |-> "DecrementTake",
      order_type |-> "Limit",
      client_order_id |-> U64Zero,
      limit |-> 0],
     [side |-> "Ask",
      limit_price |-> U64Max,
      max_coin_qty |-> <<0, 0, 0, 1>>,
      max_native_pc_qty_including_fees |-> <<1, 0, 0, 0>>,
      self_trade_behavior |-> "AbortTransaction",
      order_type |-> "PostOnly",
      client_order_id |-> <<513, 0, 7, 65535>>,
      limit |-> 65535]}

\* the place_serum_order instruction, as one transaction
PlaceSerumOrder ==
    /\ last = NoOutcome
    /\ \E a \in AccountIds, o \in LedgerOrders, ok \in BOOLEAN :
      \E rem \in IF ok THEN RemainingAccounts ELSE {CalmPrices} :
        LET ix == [acct |-> a, amount |-> 0, order |-> o, venue_ok |-> ok,
                   remaining |-> rem]
        IN \E st \in {place_serum_order(Start("place_serum_order", accounts[a],
                                               banks[0], vault[0]), ix, banks)} :
           /\ venue' = Committed(st, venue,
                                 IF st.submitted = None THEN venue
                                 ELSE venue \cup {Unwrap(st.submitted)})
           /\ last' = Outcome(st, ix, accounts[a])
           /\ UNCHANGED <<accounts, banks, vault>>
           /\ UNCHANGED wireVars

(***************************************************************************)
(* Spec: the ledger after group, bank and account creation and whatever    *)
(* deposits and borrows preceded; then any sequence of instructions.       *)
(***************************************************************************)
One == I80F48From(1)
Half == Scale \div 2

BankParams(t) ==
    [token_index |-> t,
     deposit_index |-> IF t = 1 THEN 2 * One ELSE One,
     borrow_index |-> IF t = 0 THEN One ELSE 2 * One,
     init_asset_weight |-> Half,
     init_liab_weight |-> One,
     maint_asset_weight |-> One,
     maint_liab_weight |-> One]

\* an active position of `native` whole tokens
Pos(t, native) ==
    [token_index |-> t,
     indexed_value |-> IF native > 0
                       THEN FixDiv(I80F48From(native), BankParams(t).deposit_index)
                       ELSE FixDiv(I80F48From(native), BankParams(t).borrow_index),
     in_use |-> TRUE]

SlotsOf(list) == [i \in Slots |-> IF i <= Len(list) THEN list[i] ELSE FreeSlot]

AliceTokens ==
    {SlotsOf(<<>>),
     SlotsOf(<<Pos(0, 1), Pos(1, -1)>>)}
BobTokens ==
    {SlotsOf(<<Pos(1, 1)>>)}

\* native amount of token t an account holds (negative: owes)
NativeOf(bankOf, account, t) ==
    LET mine == ActiveSlotsOf(account.tokens, t)
    IN SumOver([i \in mine |-> Native(bankOf[t], account.tokens[i])], mine)

Pooled(accts, t, sign) ==
    SumOver([a \in AccountIds |->
                LET n == NativeOf([u \in TokenIndexes |-> BankParams(u)], accts[a], t)
                IN IF sign * n > 0 THEN sign * n ELSE 0],
            AccountIds)

Init ==
    /\ accounts \in [AccountIds -> [is_bankrupt : {0, 1},
                                    tokens : AliceTokens \cup BobTokens]]
    /\ accounts["alice"].tokens \in AliceTokens
    /\ accounts["bob"].tokens \in BobTokens
    /\ accounts["bob"].is_bankrupt = 0
    /\ banks = [t \in TokenIndexes |->
                  [field \in DOMAIN BankParams(t) \cup {"total_deposits", "total_borrows"} |->
                      IF field = "total_deposits" THEN Pooled(accounts, t, 1)
                      ELSE IF field = "total_borrows" THEN Pooled(accounts, t, -1)
                      ELSE BankParams(t)[field]]]
    /\ \A t \in TokenIndexes : banks[t].total_deposits >= banks[t].total_borrows
    /\ vault = [t \in TokenIndexes |->
                  (banks[t].total_deposits - banks[t].total_borrows) \div Scale]
    /\ venue = {}
    /\ last = NoOutcome
    /\ WireInit

\* the host reports the outcome to the client and takes the next transaction
NextTransaction ==
    /\ last /= NoOutcome
    /\ last' = NoOutcome
    /\ UNCHANGED <<accounts, banks, vault, venue>>
    /\ UNCHANGED wireVars

Next == TokenDeposit \/ PlaceSerumOrder \/ NextTransaction

Spec == Init /\ [][Next]_vars

(***************************************************************************)
(* Properties of the ledger                                                *)
(***************************************************************************)
Happened(event) == \E i \in DOMAIN last.trace : last.trace[i] = event
Failed(o) == o.result \notin {"Ok", "none"}

\* C1: token_deposit never returns Ok when the Init health it computed after
\* the deposit is below zero.
DepositRejectsNegativeHealth ==
    (last.op = "token_deposit" /\ last.result = "Ok") => Unwrap(last.health) >= 0

SlotsOfToken(tokens, t) == {i \in Slots : tokens[i].token_index = t}
HeldNative(a, t) ==
    LET mine == SlotsOfToken(accounts[a].tokens, t)
    IN SumOver([i \in mine |-> Native(banks[t], accounts[a].tokens[i])], mine)

\* C3: for every bank, total_deposits - total_borrows is the sum over all
\* accounts of their position in native units, and the vault holds exactly
\* that many raw tokens: every committed deposit of amount a moved a tokens
\* into the vault and credited a native units.
Conservation ==
    \A t \in TokenIndexes :
        /\ banks[t].total_deposits - banks[t].total_borrows
             = SumOver([a \in AccountIds |-> HeldNative(a, t)], AccountIds)
        /\ I80F48From(vault[t]) = banks[t].total_deposits - banks[t].total_borrows

\* both accounts hold token 1 after a committed deposit into the bank whose
\* deposit index is 2, one of them having crossed from a borrow to a deposit
ConservationWitness ==
    /\ last.op = "token_deposit" /\ last.result = "Ok"
    /\ last.token = 1 /\ last.amount = 2 /\ last.acct = "alice"
    /\ HeldNative("alice", 1) = I80F48From(1)
    /\ HeldNative("bob", 1) > 0
    /\ banks[1].total_borrows = 0

\* C4: no slot is inactive while its scaled amount is non-zero, and a deposit
\* deactivates a slot only if bank.deposit reported the balance of that same
\* slot as zero.
DeactivationSafety ==
    /\ \A a \in AccountIds, i \in Slots :
          ~accounts[a].tokens[i].in_use => accounts[a].tokens[i].indexed_value = 0
    /\ (last.op = "token_deposit" /\ Happened("deactivate")) =>
          /\ ~last.position_is_active
          /\ accounts[last.acct].tokens[last.position_index].indexed_value = 0
          /\ ~accounts[last.acct].tokens[last.position_index].in_use
          /\ accounts[last.acct].tokens[last.position_index].token_index = last.token

DeactivationSafetyWitness ==
    /\ last.op = "token_deposit" /\ last.result = "Ok"
    /\ Happened("deactivate")
    /\ last.position_index = 2

\* C5: an account never has two active slots with the same token index;
\* get_mut_or_create hands out the active slot of the token when there is one
\* and claims an inactive slot only when there is none.
SlotUniqueness ==
    /\ [](\A a \in AccountIds, t \in TokenIndexes :
            Cardinality(ActiveSlotsOf(accounts[a].tokens, t)) <= 1)
    /\ [][(last'.op = "token_deposit" /\ last'.position_index /= 0) =>
            LET before == ActiveSlotsOf(accounts[last'.acct].tokens, last'.token)
                claimed == \E i \in DOMAIN last'.trace : last'.trace[i] = "claim_slot"
            IN IF before /= {}
               THEN last'.position_index \in before /\ ~claimed
               ELSE claimed /\ ~accounts[last'.acct].tokens[last'.position_index].in_use
         ]_vars

\* a deposit claimed the second slot for a token the account did not hold,
\* the first slot staying active with another token
SlotUniquenessWitness ==
    /\ last.op = "token_deposit" /\ last.result = "Ok"
    /\ Happened("claim_slot")
    /\ last.acct = "alice" /\ last.token = 2 /\ last.position_index = 2
    /\ accounts["alice"].tokens[1].in_use
    /\ accounts["alice"].tokens[2].in_use

\* C6: in every instruction the health evaluation comes after the external
\* side effect, and a deactivation or a successful return comes only after a
\* health evaluation of the same instruction.
SideEffects == {"token::transfer", "dex::new_order_v3"}
Ordering ==
    \A i \in DOMAIN last.trace :
        /\ last.trace[i] = "compute_health" =>
              \E k \in 1..(i - 1) : last.trace[k] \in SideEffects
        /\ last.trace[i] \in {"deactivate", "Ok"} =>
              \E j \in 1..(i - 1) :
                  /\ last.trace[j] = "compute_health"
                  /\ \E k \in 1..(j - 1) : last.trace[k] \in SideEffects

OrderingWitness ==
    /\ last.op = "token_deposit"
    /\ last.trace = <<"get_mut_or_create", "bank.deposit", "token::transfer",
                      "compute_health", "deactivate", "Ok">>

\* C10 as stated: a deposit on a bankrupt account fails with IsBankrupt before
\* anything is claimed, changed or transferred.
BankruptDepositIsBankrupt ==
    (last.op = "token_deposit" /\ last.was_bankrupt) =>
        (last.result = "IsBankrupt" /\ last.trace = <<>>)

\* C10 amended: a deposit on a bankrupt account fails before anything is
\* claimed, changed or transferred; with IsBankrupt when the amount is not
\* zero, and with the zero-amount error otherwise.
BankruptDepositRejected ==
    (last.op = "token_deposit" /\ last.was_bankrupt) =>
        /\ last.trace = <<>>
        /\ last.result = IF last.amount > 0 THEN "IsBankrupt" ELSE "SomeError"

BankruptDepositRejectedWitness ==
    /\ last.op = "token_deposit" /\ last.was_bankrupt
    /\ last.amount = 2
    /\ last.result = "IsBankrupt"

\* C11: place_serum_order on an account whose bankruptcy flag is set fails with
\* the Bankrupt error and no order reaches the venue on the account's behalf.
BankruptTradeRejected ==
    (last.op = "place_serum_order" /\ last.was_bankrupt) =>
        /\ last.result = "IsBankrupt"
        /\ last.submitted = None

\* C12: a token_deposit with amount 0 fails with InvalidInput before any
\* position, bank total or vault balance is read or changed.
ZeroAmountIsInvalidInput ==
    (last.op = "token_deposit" /\ last.amount = 0) =>
        /\ last.result = "InvalidInput"
        /\ last.trace = <<>>

Called(o, event) == \E i \in DOMAIN o.trace : o.trace[i] = event
ActiveTokens(tokens) == {tokens[i].token_index : i \in {j \in Slots : tokens[j].in_use}}

\* C13: when an instruction evaluates health, every position active at that
\* moment needs its bank/oracle pair among the remaining accounts: the account's
\* active positions and, in a deposit, the touched position, also when the
\* deposit brought it to exactly zero.  If one is missing the instruction fails
\* with MissingBank and nothing it did persists.
MissingBankCoverage ==
    [][(last'.op \in {"token_deposit", "place_serum_order"}
            /\ Called(last', "compute_health")) =>
         LET evaluated == ActiveTokens(accounts[last'.acct].tokens)
                            \cup (IF last'.op = "token_deposit" THEN {last'.token}
                                  ELSE {})
         IN ~(evaluated \subseteq last'.covered) =>
                /\ last'.result = "MissingBank"
                /\ accounts' = accounts /\ banks' = banks
                /\ vault' = vault /\ venue' = venue
      ]_vars

\* a deposit repaid a borrow to exactly zero, the pair of that bank alone was
\* not passed, and the deposit failed with MissingBank
MissingBankCoverageWitness ==
    /\ last.op = "token_deposit" /\ last.result = "MissingBank"
    /\ ~last.position_is_active
    /\ last.token \notin last.covered
    /\ ActiveTokens(accounts[last.acct].tokens) \ {last.token} \subseteq last.covered
    /\ accounts[last.acct].tokens[last.position_index].indexed_value < 0

\* position of the first occurrence of an event in a trace (0: none)
FirstCall(o, event) ==
    IF Called(o, event)
    THEN MinOf({i \in DOMAIN o.trace : o.trace[i] = event}) ELSE 0

\* C15: place_serum_order returns Ok only if the health it evaluated after the
\* order was submitted to the venue is at least zero; when that health is
\* negative the instruction fails and the venue is left without the order.
TradeRequiresHealth ==
    [][last'.op = "place_serum_order" =>
         /\ last'.result = "Ok" =>
               /\ last'.submitted /= None
               /\ last'.health /= None
               /\ Unwrap(last'.health) >= 0
               /\ 0 < FirstCall(last', "dex::new_order_v3")
               /\ FirstCall(last', "dex::new_order_v3")
                     < FirstCall(last', "compute_health")
         /\ (last'.health /= None /\ Unwrap(last'.health) < 0) =>
               /\ Failed(last')
               /\ venue' = venue
      ]_vars

\* the venue took the order, the health evaluated afterwards was negative, the
\* instruction failed and the venue holds no order
TradeRequiresHealthWitness ==
    /\ last.op = "place_serum_order"
    /\ last.submitted /= None
    /\ last.health /= None
    /\ Unwrap(last.health) < 0
    /\ Failed(last)
    /\ venue = {}

\* C16: in every committed state a slot whose amount is exactly zero is
\* inactive; the slot a committed deposit touched is active exactly if its
\* amount is not zero, whether it was found or freshly claimed.
ZeroIsInactive ==
    /\ \A a \in AccountIds, i \in Slots :
          accounts[a].tokens[i].indexed_value = 0 => ~accounts[a].tokens[i].in_use
    /\ (last.op = "token_deposit" /\ last.result = "Ok") =>
          LET slot == accounts[last.acct].tokens[last.position_index]
          IN /\ slot.in_use <=> slot.indexed_value /= 0
             /\ Happened("claim_slot") => (slot.in_use /\ slot.token_index = last.token)

\* a committed deposit found a borrow, repaid it exactly and left the slot
\* deactivated, the bank having no borrows left
ZeroIsInactiveWitness ==
    /\ last.op = "token_deposit" /\ last.result = "Ok"
    /\ ~Happened("claim_slot")
    /\ Happened("deactivate")
    /\ accounts[last.acct].tokens[last.position_index].indexed_value = 0
    /\ ~accounts[last.acct].tokens[last.position_index].in_use
    /\ banks[last.token].total_borrows = 0
    /\ banks[last.token].borrow_index > One

TransferFailureAborts ==
    [][(last'.op = "token_deposit" /\ Called(last', "token::transfer")
            /\ ~last'.cpi_ok) =>
         /\ last'.result = "TransferError"
         /\ last'.trace[Len(last'.trace)] = "token::transfer"
         /\ Called(last', "bank.deposit")
         /\ ~Called(last', "compute_health")
         /\ ~Called(last', "deactivate")
         /\ last'.health = None
         /\ accounts' = accounts /\ banks' = banks /\ vault' = vault
      ]_vars

\* the transfer failed after bank.deposit had repaid a borrow to exactly zero:
\* the slot is still active with its borrow and the bank still counts it
TransferFailureAbortsWitness ==
    /\ last.op = "token_deposit" /\ last.result = "TransferError"
    /\ ~last.cpi_ok
    /\ ~last.position_is_active
    /\ accounts[last.acct].tokens[last.position_index].in_use
    /\ accounts[last.acct].tokens[last.position_index].indexed_value < 0
    /\ banks[last.token].total_borrows > 0

\* C20: whenever place_serum_order submits to the venue, the payer token
\* account it passes is the base vault for an Ask and the quote vault for a
\* Bid, and side, limit price, both quantities, self-trade behavior, order
\* type, client order id and limit are those of the descriptor it was given;
\* what the venue keeps of a committed instruction is that submission.
PayerMatchesSide ==
    (last.op = "place_serum_order" /\ last.submitted /= None) =>
        LET sent == Unwrap(last.submitted)
            d == Unwrap(last.order)
        IN /\ d.side = "Ask" => sent.payer = "base_vault"
           /\ d.side = "Bid" => sent.payer = "quote_vault"
           /\ sent.order.side = d.side
           /\ sent.order.limit_price = d.limit_price
           /\ sent.order.max_coin_qty = d.max_coin_qty
           /\ sent.order.max_native_pc_qty_including_fees
                 = d.max_native_pc_qty_including_fees
           /\ sent.order.self_trade_behavior = d.self_trade_behavior
           /\ sent.order.order_type = d.order_type
           /\ sent.order.client_order_id = d.client_order_id
           /\ sent.order.limit = d.limit
           /\ last.result = "Ok" => sent \in venue

\* a committed Ask was paid from the base vault, after a committed Bid paid
\* from the quote vault
PayerMatchesSideWitness ==
    /\ last.op = "place_serum_order" /\ last.result = "Ok"
    /\ Unwrap(last.order).side = "Ask"
    /\ Unwrap(last.submitted).payer = "base_vault"
    /\ Unwrap(last.submitted).order.limit_price = U64Max
    /\ \E v \in venue : v.order.side = "Bid" /\ v.payer = "quote_vault"

LedgerFrozen ==
    /\ accounts = <<>>
    /\ banks = <<>>
    /\ vault = <<>>
    /\ venue = {}
    /\ last = <<>>

InitWire == WireInit /\ LedgerFrozen

SpecWire == InitWire /\ [][WireNext]_vars

====
